---------------------------- MODULE Spec2Model ----------------------------
(***************************************************************************)
(* Model of language/lookup.go: the conversion between locale subtag       *)
(* strings and compact identifiers (langID, regionID), the alias           *)
(* normalisation (normLang, normRegion), the base-26 packer (strToInt,     *)
(* intToStr) and the grandfathered tag table.                              *)
(*                                                                         *)
(* Strings and byte slices are sequences of byte values (ASCII codes).     *)
(* The registry tables (lang, altLangISO3, regionISO, fromM49, the alias   *)
(* maps, ...) live in generated files outside lookup.go; they are small    *)
(* tables here, laid out as section 3 of the specification describes.      *)
(***************************************************************************)
EXTENDS Integers, Sequences, FiniteSets, TLC

VARIABLES
    langAliasMap,   \* sorted <<[from, to, typ]>>: langAliasMap + langAliasTypes
    regionOldMap,   \* sorted <<[from, to]>>
    m49,            \* regionID -> UN M.49 code (0: none); element 1 is regionID 0
    fromM49,        \* per bucket of code >> 7, sorted: (code & 127) << 9 | regionID
    m49Index,       \* bucket idx is fromM49[m49Index[idx]:m49Index[idx+1]]
    op,             \* the function called last
    arg,            \* its argument
    res             \* what it returned

vars == <<langAliasMap, regionOldMap, m49, fromM49, m49Index, op, arg, res>>

(***************************************************************************)
(* Bounds of the model.                                                    *)
(***************************************************************************)
\* strToInt is exercised on the letters 'a'..'a'+PackSpan-1 and 'z'-PackSpan+1..'z'
PackSpan == 5
\* alias tables hold identifiers 0..MaxAliasId
MaxAliasId == 3
\* and at most MaxAliasLen entries
MaxAliasLen == 2

(***************************************************************************)
(* Helpers for Go values.                                                  *)
(***************************************************************************)
\* s[lo:hi] of Go (0-based, hi exclusive) on a 1-based sequence
Slice(s, lo, hi) == SubSeq(s, lo + 1, hi)

IsLower(c) == c >= 97 /\ c <= 122
IsUpper(c) == c >= 65 /\ c <= 90
IsDigit(c) == c >= 48 /\ c <= 57

\* sort.Search(n, f): the bisection of the Go library, on pred[h] = f(h), h in 0..n-1
RECURSIVE Bisect(_, _, _)
Bisect(pred, i, j) ==
    IF i < j
    THEN LET h == (i + j) \div 2
         IN  IF ~pred[h] THEN Bisect(pred, h + 1, j) ELSE Bisect(pred, i, h)
    ELSE i

sortSearch(n, pred) == Bisect(pred, 0, n)

(***************************************************************************)
(* The base-26 packer.                                                     *)
(***************************************************************************)
base == 122 - 97 + 1

\* v = v*base + uint(s[i] - 'a'), most significant character first; the
\* subtraction is a byte subtraction
RECURSIVE strToIntFrom(_, _, _)
strToIntFrom(s, i, v) ==
    IF i < Len(s)
    THEN strToIntFrom(s, i + 1, v * base + ((s[i + 1] - 97) % 256))
    ELSE v

\* a packer that reads the least significant character first
RECURSIVE strToIntRev(_, _, _)
strToIntRev(s, i, v) ==
    IF i < Len(s)
    THEN strToIntRev(s, i + 1, v * base + ((s[Len(s) - i] - 97) % 256))
    ELSE v

strToIntLSB(s) == strToIntRev(s, 0, 0)

strToInt(s) == strToIntFrom(s, 0, 0)

\* intToStr(v, s) with len(s) = n: digits written from the last position backward
RECURSIVE intToStrFrom(_, _, _)
intToStrFrom(v, i, s) ==
    IF i >= 0
    THEN intToStrFrom(v \div base, i - 1,
                      [s EXCEPT ![i + 1] = (((v % base) % 256) + 97) % 256])
    ELSE s

intToStr(v, n) == intToStrFrom(v, n - 1, [k \in 1..n |-> 0])

(***************************************************************************)
(* internal/tag: FixCase and the fixed-width sorted index (tag.Index), as  *)
(* sections 3 and 4.1 of the specification describe them.  A table is a    *)
(* sequence of 4-byte records; record i of Go is element i+1 here.         *)
(***************************************************************************)
FixByte(f, c) ==
    IF f <= 90
    THEN (IF c >= 97 THEN c - 32 ELSE c)
    ELSE (IF c <= 90 THEN c + 32 ELSE c)

\* tag.FixCase(form, b): false on a length or class mismatch, else b is
\* rewritten in the case of form
FixCase(form, b) ==
    IF Len(form) # Len(b)
    THEN [ok |-> FALSE, b |-> b]
    ELSE LET fixed == [i \in 1..Len(b) |-> FixByte(form[i], b[i])]
             good  == \A i \in 1..Len(b) :
                         IF form[i] <= 90 THEN IsUpper(fixed[i]) ELSE IsLower(fixed[i])
         IN  [ok |-> good, b |-> IF good THEN fixed ELSE b]

\* bytewise a < b for sequences of one length
SeqLess(a, b) ==
    \E i \in 1..Len(a) : a[i] < b[i] /\ \A j \in 1..(i - 1) : a[j] = b[j]

Elem(tab, i) == tab[i + 1]

\* Index.Index(key): the first record whose first len(key) bytes equal key, or -1
Index(tab, key) ==
    LET n    == Len(tab)
        pre  == [h \in 0..(n - 1) |-> SubSeq(tab[h + 1], 1, Len(key))]
        pred == [h \in 0..(n - 1) |-> ~SeqLess(pre[h], key)]
        i    == sortSearch(n, pred)
    IN  IF i < n /\ pre[i] = key THEN i ELSE -1

\* Index.Next(key, x): x+1 if that record has the same prefix, or -1
Next_(tab, key, x) ==
    IF x + 1 < Len(tab) /\ SubSeq(tab[x + 2], 1, Len(key)) = key THEN x + 1 ELSE -1

(***************************************************************************)
(* The language tables (tables.go), over the letters a b d n u.            *)
(* lang: 4-byte records, sorted by tag; record i is langID i.  A 2-letter  *)
(* tag is followed by the 2nd and 3rd letter of its ISO 639-3 code, or by  *)
(* 0 and an index into altLangISO3; a 3-letter tag is followed by 0.       *)
(***************************************************************************)
lang ==
    << <<0, 0, 0, 0>>,          \* 0: unspecified
       <<97, 98, 98, 100>>,     \* 1: "ab", ISO3 "abd"
       <<97, 98, 100, 0>>,      \* 2: "abd"
       <<97, 110, 110, 100>>,   \* 3: "an", ISO3 "and"
       <<100, 97, 0, 1>>,       \* 4: "da", ISO3 altLangISO3[1] = "bud"
       <<110, 97, 97, 100>>,    \* 5: "na", ISO3 "nad"
       <<110, 97, 98, 0>>,      \* 6: "nab"
       <<110, 97, 110, 0>>,     \* 7: "nan"
       <<117, 110, 100, 0>> >>  \* 8: "und"

\* the langID of the table's own "und" record
nonCanonicalUnd == 8

\* 3 letters and an index into altLangIndex
altLangISO3 ==
    << <<45, 45, 45, 0>>,       \* 0: "---", no entry
       <<98, 117, 100, 0>> >>   \* 1: "bud" -> altLangIndex[0]

altLangIndex == <<4>>

\* langIDs from here on are packed 3-letter codes
langNoIndexOffset == 9

\* the packed codes whose bit is set in langNoIndex:
\* "bbb", "bud" (also in altLangISO3), "nad" (also the ISO3 of "na"),
\* "und" (also a record of lang), "dud"
langNoIndexSet ==
    { strToInt(<<98, 98, 98>>), strToInt(<<98, 117, 100>>),
      strToInt(<<110, 97, 100>>), strToInt(<<117, 110, 100>>),
      strToInt(<<100, 117, 100>>) }

\* langNoIndex[n/8] & (1 << (n%8)) != 0
langNoIndexBit(n) == n \in langNoIndexSet

errSyntax == [id |-> 0, err |-> "syntax", payload |-> <<>>]

\* mkErrInvalid(s): the invalid-subtag failure carrying the rejected input
mkErrInvalid(s) == [id |-> 0, err |-> "invalid", payload |-> s]

Ok(id) == [id |-> id, err |-> "nil", payload |-> <<>>]

(***************************************************************************)
(* The language resolver.                                                  *)
(***************************************************************************)
getLangISO2(s0) ==
    LET fc == FixCase(<<122, 122>>, s0)
        s  == fc.b
        i  == Index(lang, s)
    IN  IF ~fc.ok THEN errSyntax
        ELSE IF i # -1 /\ Elem(lang, i)[4] # 0 THEN Ok(i)
        ELSE mkErrInvalid(s)

\* the loop of lines 94-105: the first record from i on, under the prefix
\* s[:2], with e[3] == 0 && e[2] == s[2]; -1 when the loop ends
RECURSIVE canonicalScan(_, _)
canonicalScan(s, i) ==
    IF i = -1 THEN -1
    ELSE LET e == Elem(lang, i)
         IN  IF e[4] = 0 /\ e[3] = s[3] THEN i
             ELSE canonicalScan(s, Next_(lang, Slice(s, 0, 2), i))

\* the loop of lines 114-118: under the prefix s[:1], e[2] == s[1] && e[3] == s[2]
RECURSIVE nonCanonicalScan(_, _)
nonCanonicalScan(s, i) ==
    IF i = -1 THEN -1
    ELSE LET e == Elem(lang, i)
         IN  IF e[3] = s[2] /\ e[4] = s[3] THEN i
             ELSE nonCanonicalScan(s, Next_(lang, Slice(s, 0, 1), i))

\* getLangISO3 with the dense fallback and the non-canonical scan exchanged
getLangISO3ScanFirst(s0) ==
    LET fc == FixCase(<<117, 110, 100>>, s0)
        s  == fc.b
        c  == canonicalScan(s, Index(lang, Slice(s, 0, 2)))
        a  == Index(altLangISO3, s)
        n  == strToInt(s)
        nc == nonCanonicalScan(s, Index(lang, Slice(s, 0, 1)))
    IN  IF ~fc.ok THEN errSyntax
        ELSE IF c # -1 THEN (IF c = nonCanonicalUnd THEN Ok(0) ELSE Ok(c))
        ELSE IF a # -1 THEN Ok(altLangIndex[Elem(altLangISO3, a)[4] + 1])
        ELSE IF nc # -1 THEN Ok(nc)
        ELSE IF langNoIndexBit(n) THEN Ok((n + langNoIndexOffset) % 65536)
        ELSE mkErrInvalid(s)

getLangISO3(s0) ==
    LET fc == FixCase(<<117, 110, 100>>, s0)
        s  == fc.b
        c  == canonicalScan(s, Index(lang, Slice(s, 0, 2)))
        a  == Index(altLangISO3, s)
        n  == strToInt(s)
        nc == nonCanonicalScan(s, Index(lang, Slice(s, 0, 1)))
    IN  IF ~fc.ok THEN errSyntax
        ELSE IF c # -1 THEN (IF c = nonCanonicalUnd THEN Ok(0) ELSE Ok(c))
        ELSE IF a # -1 THEN Ok(altLangIndex[Elem(altLangISO3, a)[4] + 1])
        ELSE IF langNoIndexBit(n) THEN Ok((n + langNoIndexOffset) % 65536)
        ELSE IF nc # -1 THEN Ok(nc)
        ELSE mkErrInvalid(s)

getLangID(s) == IF Len(s) = 2 THEN getLangISO2(s) ELSE getLangISO3(s)

\* langID.String without the test l[3] == 0
langStringShort(b) ==
    IF b = 0 THEN <<117, 110, 100>>
    ELSE IF b >= langNoIndexOffset THEN intToStr(b - langNoIndexOffset, 3)
    ELSE Slice(Elem(lang, b), 0, 2)

\* langID.String
langString(b) ==
    IF b = 0 THEN <<117, 110, 100>>
    ELSE IF b >= langNoIndexOffset THEN intToStr(b - langNoIndexOffset, 3)
    ELSE LET l == Elem(lang, b)
         IN  IF l[4] = 0 THEN Slice(l, 0, 3) ELSE Slice(l, 0, 2)

\* normLang without the test from == id after the search
normLangNoTest(id) ==
    LET n == Len(langAliasMap)
        k == sortSearch(n, [i \in 0..(n - 1) |-> langAliasMap[i + 1].from >= id])
    IN  IF k < n
        THEN [id |-> langAliasMap[k + 1].to, typ |-> langAliasMap[k + 1].typ]
        ELSE [id |-> id, typ |-> "unknown"]

\* normLang: the alias entry with from == id, else id and langAliasTypeUnknown
normLang(id) ==
    LET n == Len(langAliasMap)
        k == sortSearch(n, [i \in 0..(n - 1) |-> langAliasMap[i + 1].from >= id])
    IN  IF k < n /\ langAliasMap[k + 1].from = id
        THEN [id |-> langAliasMap[k + 1].to, typ |-> langAliasMap[k + 1].typ]
        ELSE [id |-> id, typ |-> "unknown"]

(***************************************************************************)
(* The region tables (tables.go), over the letters A B Z.                  *)
(* regionIDs below isoRegionOffset have a numeric code only; regionISO     *)
(* record i is regionID i + isoRegionOffset: 2 letters, then the 2nd and   *)
(* 3rd letter of the ISO 3166 3-letter code, or 0 and an offset into       *)
(* altRegionISO3, or two spaces when there is no 3-letter code.            *)
(***************************************************************************)
isoRegionOffset == 5

regionISO ==
    << <<65, 65, 65, 66>>,      \*  5: "AA", ISO3 "AAB"
       <<65, 66, 0, 0>>,        \*  6: "AB", ISO3 altRegionISO3[0:3] = "BAZ"
       <<65, 90, 32, 32>>,      \*  7: "AZ", no ISO3
       <<66, 65, 90, 65>>,      \*  8: "BA", ISO3 "BZA"
       <<66, 66, 65, 66>>,      \*  9: "BB", ISO3 "BAB"
       <<66, 90, 66, 66>>,      \* 10: "BZ", ISO3 "BBB"
       <<90, 65, 65, 65>>,      \* 11: "ZA", ISO3 "ZAA"
       <<90, 66, 90, 66>>,      \* 12: "ZB", ISO3 "ZZB"
       <<90, 90, 90, 90>> >>    \* 13: "ZZ", ISO3 "ZZZ"

altRegionISO3 == <<66, 65, 90, 90, 66, 90>>   \* "BAZ" "ZBZ"

altRegionIDs == <<6, 7>>

\* one word of fromM49
M49Entry(code, r) == (code % 128) * 512 + r

\* a registry in which every bucket of fromM49 is populated and the last
\* one ends with 999, the code of "ZZ"
M49Dense ==
    [ m49      |-> <<0, 1, 19, 130, 897, 100, 250, 0, 300, 400, 520, 643, 770, 999>>,
      fromM49  |-> << M49Entry(1, 1), M49Entry(19, 2), M49Entry(100, 5),
                      M49Entry(130, 3), M49Entry(250, 6),
                      M49Entry(300, 8),
                      M49Entry(400, 9),
                      M49Entry(520, 10),
                      M49Entry(643, 11),
                      M49Entry(770, 12),
                      M49Entry(897, 4), M49Entry(999, 13) >>,
      m49Index |-> <<0, 3, 5, 6, 7, 8, 9, 10, 12>> ]

\* a registry with few numeric codes: buckets 2..6 are empty
M49Sparse ==
    [ m49      |-> <<0, 1, 19, 130, 900, 100, 0, 0, 0, 0, 0, 0, 0, 0>>,
      fromM49  |-> << M49Entry(1, 1), M49Entry(19, 2), M49Entry(100, 5),
                      M49Entry(130, 3),
                      M49Entry(900, 4) >>,
      m49Index |-> <<0, 3, 4, 4, 4, 4, 4, 4, 5>> ]

Registries == {M49Dense, M49Sparse}

(***************************************************************************)
(* The region resolver.  A result also records the tables the call read    *)
(* (consulted) and, for getRegionM49, the index of fromM49 it compared     *)
(* (read) and the bucket it searched (lo, hi).                             *)
(***************************************************************************)
RErr(kind, payload, consulted) ==
    [id |-> 0, err |-> kind, payload |-> payload, consulted |-> consulted,
     read |-> -1, lo |-> 0, hi |-> 0]

ROk(id, consulted) ==
    [id |-> id, err |-> "nil", payload |-> <<>>, consulted |-> consulted,
     read |-> -1, lo |-> 0, hi |-> 0]

isAlpha(c) == IsUpper(c) \/ IsLower(c)

\* the decimal digits fmt.Fprint writes for n >= 0
RECURSIVE Decimal(_)
Decimal(n) == IF n < 10 THEN <<48 + n>> ELSE Append(Decimal(n \div 10), 48 + (n % 10))

\* the size of ValueError.v
valueErrorSize == 8

\* The array behind a bytes.Buffer made by bytes.NewBuffer(backing[:length])
\* after data is written to it: a write appends after the buffer's contents,
\* in place while the capacity allows, into a new array otherwise.
BufferWrite(backing, length, data) ==
    IF length + Len(data) <= Len(backing)
    THEN [i \in 1..Len(backing) |->
             IF i > length /\ i <= length + Len(data) THEN data[i - length]
             ELSE backing[i]]
    ELSE backing

\* lines 242-244: var e ValueError; fmt.Fprint(bytes.NewBuffer([]byte(e.v[:])), n)
\* the buffer's contents are all of e.v, so its length is len(e.v)
valueError(n) ==
    LET v == [i \in 1..valueErrorSize |-> 0]
    IN  RErr("value", BufferWrite(v, valueErrorSize, Decimal(n)), {})

getRegionM49(n) ==
    IF 0 < n /\ n <= 999
    THEN LET idx  == n \div 128
             lo   == m49Index[idx + 1]
             hi   == m49Index[idx + 2]
             buf  == Slice(fromM49, lo, hi)
             val  == (n * 512) % 65536
             i    == sortSearch(Len(buf), [k \in 0..(Len(buf) - 1) |-> buf[k + 1] >= val])
             pos  == lo + i
             used == {"m49Index", "fromM49"}
         IN  IF pos >= Len(fromM49)
             THEN [RErr("panic", <<>>, used) EXCEPT !.read = pos, !.lo = lo, !.hi = hi]
             ELSE LET r == fromM49[pos + 1]
                  IN  IF r - (r % 512) = val
                      THEN [ROk(r % 512, used) EXCEPT !.read = pos, !.lo = lo, !.hi = hi]
                      ELSE [valueError(n) EXCEPT !.consulted = used,
                                                 !.read = pos, !.lo = lo, !.hi = hi]
    ELSE valueError(n)

\* findIndex(regionISO, s, "ZZ") and the offset
getRegionISO2(s0) ==
    LET fc == FixCase(<<90, 90>>, s0)
        s  == fc.b
        i  == Index(regionISO, s)
    IN  IF ~fc.ok THEN RErr("syntax", <<>>, {})
        ELSE IF i = -1 THEN RErr("invalid", s, {"regionISO"})
        ELSE ROk(i + isoRegionOffset, {"regionISO"})

\* the loop of lines 210-214
RECURSIVE regionScan(_, _)
regionScan(s, i) ==
    IF i = -1 THEN -1
    ELSE LET e == Elem(regionISO, i)
         IN  IF e[3] = s[2] /\ e[4] = s[3] THEN i
             ELSE regionScan(s, Next_(regionISO, Slice(s, 0, 1), i))

\* the loop of lines 215-219: the first i (a multiple of 3) with
\* altRegionISO3[i:i+3] == s, or -1
RECURSIVE altRegionScan(_, _)
altRegionScan(s, i) ==
    IF i >= Len(altRegionISO3) THEN -1
    ELSE IF Slice(altRegionISO3, i, i + 3) = s THEN i
    ELSE altRegionScan(s, i + 3)

getRegionISO3(s0) ==
    LET fc == FixCase(<<90, 90, 90>>, s0)
        s  == fc.b
        i  == regionScan(s, Index(regionISO, Slice(s, 0, 1)))
        j  == altRegionScan(s, 0)
    IN  IF ~fc.ok THEN RErr("syntax", <<>>, {})
        ELSE IF i # -1 THEN ROk(i + isoRegionOffset, {"regionISO"})
        ELSE IF j # -1 THEN ROk(altRegionIDs[(j \div 3) + 1], {"regionISO", "altRegionISO3"})
        ELSE RErr("invalid", s, {"regionISO", "altRegionISO3"})

\* strconv.ParseUint(s, 10, 10) for a 3-byte s: the number, or -1 for an error
ParseUint3(s) ==
    IF \A i \in 1..3 : IsDigit(s[i])
    THEN (s[1] - 48) * 100 + (s[2] - 48) * 10 + (s[3] - 48)
    ELSE -1

getRegionID(s) ==
    IF Len(s) = 3 /\ isAlpha(s[1]) THEN getRegionISO3(s)
    ELSE IF Len(s) = 3 /\ ParseUint3(s) # -1 THEN getRegionM49(ParseUint3(s))
    ELSE getRegionISO2(s)

\* regionID.M49
regionM49(r) == m49[r + 1]

\* fmt.Sprintf("%03d", n)
Sprintf03d(n) ==
    LET d == Decimal(n)
    IN  IF Len(d) >= 3 THEN d ELSE [i \in 1..(3 - Len(d)) |-> 48] \o d

\* regionID.String
regionString(r) ==
    IF r < isoRegionOffset
    THEN (IF r = 0 THEN <<90, 90>> ELSE Sprintf03d(regionM49(r)))
    ELSE Slice(Elem(regionISO, r - isoRegionOffset), 0, 2)

\* normRegion with the input returned when no entry matches
normRegionKeep(r) ==
    LET n == Len(regionOldMap)
        k == sortSearch(n, [i \in 0..(n - 1) |-> regionOldMap[i + 1].from >= r])
    IN  IF k < n /\ regionOldMap[k + 1].from = r THEN regionOldMap[k + 1].to ELSE r

\* normRegion: the entry with from == r, else 0
normRegion(r) ==
    LET n == Len(regionOldMap)
        k == sortSearch(n, [i \in 0..(n - 1) |-> regionOldMap[i + 1].from >= r])
    IN  IF k < n /\ regionOldMap[k + 1].from = r THEN regionOldMap[k + 1].to ELSE 0

(***************************************************************************)
(* The grandfathered tags.  The langIDs _jbo ... are constants of          *)
(* tables.go; only that they are langIDs (non-negative) matters here.      *)
(***************************************************************************)
_jbo == 11
_ami == 12
_bnn == 13
_hak == 14
_tlh == 15
_lb == 16
_nv == 17
_pwn == 18
_tao == 19
_tay == 20
_tsu == 21
_nb == 22
_nn == 23
_sfb == 24
_vgt == 25
_sgg == 26
_cmn == 27
_nan == 28
_hsn == 29

\* key -> langID, or -(index into altTagIndex) - 1
grandfatheredMap ==
    <<
       \* "art-lojban"
       [key |-> <<97, 114, 116, 45, 108, 111, 106, 98, 97, 110>>, v |-> _jbo],
       \* "i-ami"
       [key |-> <<105, 45, 97, 109, 105>>, v |-> _ami],
       \* "i-bnn"
       [key |-> <<105, 45, 98, 110, 110>>, v |-> _bnn],
       \* "i-hak"
       [key |-> <<105, 45, 104, 97, 107>>, v |-> _hak],
       \* "i-klingon"
       [key |-> <<105, 45, 107, 108, 105, 110, 103, 111, 110>>, v |-> _tlh],
       \* "i-lux"
       [key |-> <<105, 45, 108, 117, 120>>, v |-> _lb],
       \* "i-navajo"
       [key |-> <<105, 45, 110, 97, 118, 97, 106, 111>>, v |-> _nv],
       \* "i-pwn"
       [key |-> <<105, 45, 112, 119, 110>>, v |-> _pwn],
       \* "i-tao"
       [key |-> <<105, 45, 116, 97, 111>>, v |-> _tao],
       \* "i-tay"
       [key |-> <<105, 45, 116, 97, 121>>, v |-> _tay],
       \* "i-tsu"
       [key |-> <<105, 45, 116, 115, 117>>, v |-> _tsu],
       \* "no-bok"
       [key |-> <<110, 111, 45, 98, 111, 107>>, v |-> _nb],
       \* "no-nyn"
       [key |-> <<110, 111, 45, 110, 121, 110>>, v |-> _nn],
       \* "sgn-BE-FR"
       [key |-> <<115, 103, 110, 45, 66, 69, 45, 70, 82>>, v |-> _sfb],
       \* "sgn-BE-NL"
       [key |-> <<115, 103, 110, 45, 66, 69, 45, 78, 76>>, v |-> _vgt],
       \* "sgn-CH-DE"
       [key |-> <<115, 103, 110, 45, 67, 72, 45, 68, 69>>, v |-> _sgg],
       \* "zh-guoyu"
       [key |-> <<122, 104, 45, 103, 117, 111, 121, 117>>, v |-> _cmn],
       \* "zh-hakka"
       [key |-> <<122, 104, 45, 104, 97, 107, 107, 97>>, v |-> _hak],
       \* "zh-min-nan"
       [key |-> <<122, 104, 45, 109, 105, 110, 45, 110, 97, 110>>, v |-> _nan],
       \* "zh-xiang"
       [key |-> <<122, 104, 45, 120, 105, 97, 110, 103>>, v |-> _hsn],
       \* "cel-gaulish"
       [key |-> <<99, 101, 108, 45, 103, 97, 117, 108, 105, 115, 104>>, v |-> -1],
       \* "en-GB-oed"
       [key |-> <<101, 110, 45, 71, 66, 45, 111, 101, 100>>, v |-> -2],
       \* "i-default"
       [key |-> <<105, 45, 100, 101, 102, 97, 117, 108, 116>>, v |-> -3],
       \* "i-enochian"
       [key |-> <<105, 45, 101, 110, 111, 99, 104, 105, 97, 110>>, v |-> -4],
       \* "i-mingo"
       [key |-> <<105, 45, 109, 105, 110, 103, 111>>, v |-> -5],
       \* "zh-min"
       [key |-> <<122, 104, 45, 109, 105, 110>>, v |-> -6],
       \* "root"
       [key |-> <<114, 111, 111, 116>>, v |-> 0] >>

altTagIndex == <<0, 17, 28, 42, 58, 71, 83>>

\* "xtg-x-cel-gaulishen-GB-x-oeden-x-i-defaultund-x-i-enochiansee-x-i-mingonan-x-zh-min"
altTags ==
    <<
       120, 116, 103, 45, 120, 45, 99, 101, 108, 45, 103, 97, 117, 108, 105, 115,
       104, 101, 110, 45, 71, 66, 45, 120, 45, 111, 101, 100, 101, 110, 45, 120,
       45, 105, 45, 100, 101, 102, 97, 117, 108, 116, 117, 110, 100, 45, 120, 45,
       105, 45, 101, 110, 111, 99, 104, 105, 97, 110, 115, 101, 101, 45, 120, 45,
       105, 45, 109, 105, 110, 103, 111, 110, 97, 110, 45, 120, 45, 122, 104, 45,
       109, 105, 110 >>

\* the zero Tag
zeroTag == [lang |-> 0, script |-> 0, region |-> 0, str |-> <<>>]

\* Make(s): the tag parsed from s (the parser is another file's)
Make(s) == [parsed |-> s]

\* v, ok := grandfatheredMap[s]
grandfatheredLookup(s) ==
    LET hit == {i \in 1..Len(grandfatheredMap) : grandfatheredMap[i].key = s}
    IN  IF hit = {} THEN [ok |-> FALSE, v |-> 0]
        ELSE [ok |-> TRUE, v |-> grandfatheredMap[CHOOSE i \in hit : TRUE].v]

\* grandfathered with the slice taken one entry too late
grandfatheredNextSlice(s) ==
    LET e == grandfatheredLookup(s)
    IN  IF ~e.ok THEN [t |-> zeroTag, ok |-> FALSE, err |-> "nil"]
        ELSE IF e.v < 0
        THEN LET lo == altTagIndex[(-e.v) + 1]
                 hi == IF (-e.v) + 2 <= Len(altTagIndex)
                       THEN altTagIndex[(-e.v) + 2] ELSE Len(altTags)
             IN  [t |-> Make(Slice(altTags, lo, hi)), ok |-> TRUE, err |-> "nil"]
        ELSE [t |-> [zeroTag EXCEPT !.lang = e.v], ok |-> TRUE, err |-> "nil"]

\* grandfathered(s): altTags[altTagIndex[-v-1]:altTagIndex[-v]] through Make
\* for v < 0, else the zero Tag with lang = v
grandfathered(s) ==
    LET e == grandfatheredLookup(s)
    IN  IF ~e.ok THEN [t |-> zeroTag, ok |-> FALSE, err |-> "nil"]
        ELSE IF e.v < 0
        THEN LET lo == altTagIndex[(-e.v - 1) + 1]
                 hi == altTagIndex[(-e.v) + 1]
             IN  IF lo > hi \/ hi > Len(altTags)
                 THEN [t |-> zeroTag, ok |-> FALSE, err |-> "panic"]
                 ELSE [t |-> Make(Slice(altTags, lo, hi)), ok |-> TRUE, err |-> "nil"]
        ELSE [t |-> [zeroTag EXCEPT !.lang = e.v], ok |-> TRUE, err |-> "nil"]

(***************************************************************************)
(* The state machine: the tables are fixed at start-up; every step is one  *)
(* call of a function of lookup.go.                                        *)
(***************************************************************************)
AliasIds == 0..MaxAliasId

\* the alias tables: at most MaxAliasLen entries, from strictly ascending
AliasTables ==
    { t \in UNION { [1..n -> [from : AliasIds, to : AliasIds]] : n \in 0..MaxAliasLen } :
        \A i \in 1..(Len(t) - 1) : t[i].from < t[i + 1].from }

WithTypes(t) == [i \in 1..Len(t) |-> [from |-> t[i].from, to |-> t[i].to, typ |-> "macro"]]

DefaultAliasMap == << [from |-> 1, to |-> 2] >>

\* the inputs of the resolvers
LangBytes == {97, 98, 100, 110, 117, 85, 49}           \* a b d n u U 1
RegionBytes == {48, 49, 57, 65, 66, 90, 97, 122}       \* 0 1 9 A B Z a z
PackBytes == (97..(97 + PackSpan - 1)) \cup ((122 - PackSpan + 1)..122)

Strings(bytes, n) == [1..n -> bytes]

ToLower(s) == [i \in 1..Len(s) |-> IF IsUpper(s[i]) THEN s[i] + 32 ELSE s[i]]

GrandfatheredKeys == { grandfatheredMap[i].key : i \in 1..Len(grandfatheredMap) }

GrandfatheredInputs ==
    GrandfatheredKeys \cup { ToLower(k) : k \in GrandfatheredKeys }
        \cup { <<101, 110>>, <<105, 45, 120>> }          \* "en", "i-x"

Idle ==
    /\ op = "idle"
    /\ arg = <<>>
    /\ res = <<>>

Init ==
    /\ langAliasMap = WithTypes(DefaultAliasMap)
    /\ regionOldMap = DefaultAliasMap
    /\ \E reg \in Registries :
          /\ m49 = reg.m49
          /\ fromM49 = reg.fromM49
          /\ m49Index = reg.m49Index
    /\ Idle

InitAlias ==
    /\ \/ /\ \E t \in AliasTables : langAliasMap = WithTypes(t)
          /\ regionOldMap = DefaultAliasMap
       \/ /\ langAliasMap = WithTypes(DefaultAliasMap)
          /\ \E t \in AliasTables : regionOldMap = t
    /\ m49 = M49Dense.m49
    /\ fromM49 = M49Dense.fromM49
    /\ m49Index = M49Dense.m49Index
    /\ Idle

Tables == <<langAliasMap, regionOldMap, m49, fromM49, m49Index>>

Pack ==
    /\ op = "idle"
    /\ \E s \in Strings(PackBytes, 3) :
          /\ arg' = s
          /\ res' = [n |-> strToInt(s), str |-> intToStr(strToInt(s), 3)]
    /\ op' = "strToInt"
    /\ UNCHANGED Tables

GetLangID ==
    /\ op = "idle"
    /\ \E s \in Strings(LangBytes, 2) \cup Strings(LangBytes, 3) :
          /\ arg' = s
          /\ res' = getLangID(s)
    /\ op' = "getLangID"
    /\ UNCHANGED Tables

\* getLangID(id.String())
LangRoundTrip ==
    /\ op = "idle"
    /\ \E id \in 0..(langNoIndexOffset - 1) :
          /\ arg' = id
          /\ res' = getLangID(langString(id))
    /\ op' = "langRoundTrip"
    /\ UNCHANGED Tables

NormLang ==
    /\ op = "idle"
    /\ \E id \in AliasIds :
          /\ arg' = id
          /\ res' = normLang(id)
    /\ op' = "normLang"
    /\ UNCHANGED Tables

NormRegion ==
    /\ op = "idle"
    /\ \E r \in AliasIds :
          /\ arg' = r
          /\ res' = normRegion(r)
    /\ op' = "normRegion"
    /\ UNCHANGED Tables

GetRegionID ==
    /\ op = "idle"
    /\ \E s \in Strings(RegionBytes, 2) \cup Strings(RegionBytes, 3) :
          /\ arg' = s
          /\ res' = getRegionID(s)
    /\ op' = "getRegionID"
    /\ UNCHANGED Tables

\* n ranges over the numbers strconv.ParseUint(s, 10, 10) can return
GetRegionM49 ==
    /\ op = "idle"
    /\ \E n \in 0..1023 :
          /\ arg' = n
          /\ res' = getRegionM49(n)
    /\ op' = "getRegionM49"
    /\ UNCHANGED Tables

\* getRegionID(r.String())
RegionRoundTrip ==
    /\ op = "idle"
    /\ \E r \in 0..(Len(m49) - 1) :
          /\ arg' = r
          /\ res' = getRegionID(regionString(r))
    /\ op' = "regionRoundTrip"
    /\ UNCHANGED Tables

Grandfathered ==
    /\ op = "idle"
    /\ \E s \in GrandfatheredInputs :
          /\ arg' = s
          /\ res' = grandfathered(s)
    /\ op' = "grandfathered"
    /\ UNCHANGED Tables

\* the caller has taken the result
Return ==
    /\ op # "idle"
    /\ op' = "idle"
    /\ arg' = <<>>
    /\ res' = <<>>
    /\ UNCHANGED Tables

Next ==
    \/ Pack
    \/ GetLangID
    \/ LangRoundTrip
    \/ NormLang
    \/ NormRegion
    \/ GetRegionID
    \/ GetRegionM49
    \/ RegionRoundTrip
    \/ Grandfathered
    \/ Return

Spec == Init /\ [][Next]_vars

NextAlias == NormLang \/ NormRegion \/ Return

SpecAlias == InitAlias /\ [][NextAlias]_vars

(***************************************************************************)
(* Properties.                                                             *)
(***************************************************************************)

\* ---- C4 ----------------------------------------------------------------
\* C4: for every 3-letter string s over 'a'..'z', intToStr(strToInt(s))
\* written into 3 bytes is s again; strToInt(s) lies in 0..26^3-1, weighs the
\* first character most, and no other 3-letter string packs to the same number.
C4_PackerInverse ==
    op = "strToInt" =>
        /\ res.str = arg
        /\ res.n \in 0..(26 * 26 * 26 - 1)
        /\ res.n = (arg[1] - 97) * 676 + (arg[2] - 97) * 26 + (arg[3] - 97)
        /\ \A t \in Strings(PackBytes, 3) : strToInt(t) = res.n => t = arg

\* "zya" was packed and unpacked
C4_Witness ==
    /\ op = "strToInt"
    /\ arg = <<122, 121, 97>>
    /\ res.str = <<122, 121, 97>>
    /\ res.n = 25 * 676 + 24 * 26

\* ---- C8 ----------------------------------------------------------------
\* no entry's to is the from of an entry
NotChained ==
    \A i, j \in 1..Len(langAliasMap) : langAliasMap[i].to # langAliasMap[j].from

\* C8: when no alias entry's to is itself a from, normLang applied to the
\* identifier normLang(id) returned gives that identifier again.  (The
\* classification of the second call is langAliasTypeUnknown.)
C8_AliasIdempotent ==
    (op = "normLang" /\ NotChained) => normLang(res.id).id = res.id

\* an identifier with an alias was normalised under an unchained table
C8_Witness ==
    /\ op = "normLang"
    /\ NotChained
    /\ res.id # arg
    /\ res.typ = "macro"
    /\ normLang(res.id) = [id |-> res.id, typ |-> "unknown"]

\* ---- C1 ----------------------------------------------------------------
RegionAliasOf(r) == { i \in 1..Len(regionOldMap) : regionOldMap[i].from = r }

\* C1 as claimed: normRegion returns the to of the entry whose from is the
\* input, and the input itself when there is no such entry.
C1_NoEntryKeepsInput ==
    op = "normRegion" =>
        /\ \A i \in RegionAliasOf(arg) : res = regionOldMap[i].to
        /\ RegionAliasOf(arg) = {} => res = arg

\* C1 amended: normRegion returns the to of the entry whose from is the
\* input, and 0 (the unspecified region) when there is no such entry.
C1_NoEntryReturnsZero ==
    op = "normRegion" =>
        /\ \A i \in RegionAliasOf(arg) : res = regionOldMap[i].to
        /\ RegionAliasOf(arg) = {} => res = 0

\* a region other than 0 without an alias entry was normalised, next to an
\* entry of the table for a larger and a smaller identifier
C1_Witness ==
    /\ op = "normRegion"
    /\ arg = 1
    /\ RegionAliasOf(1) = {}
    /\ RegionAliasOf(0) # {}
    /\ RegionAliasOf(2) # {}
    /\ res = 0

\* ---- C2 ----------------------------------------------------------------
\* C2: a failure of getRegionM49(n) is a value-range failure whose payload
\* carries n: the payload starts with the decimal digits of n.
C2_FailureCarriesNumber ==
    (op = "getRegionM49" /\ res.err # "nil") =>
        /\ res.err = "value"
        /\ Len(res.payload) >= Len(Decimal(arg))
        /\ SubSeq(res.payload, 1, Len(Decimal(arg))) = Decimal(arg)

\* ---- C10 ---------------------------------------------------------------
\* C10: getRegionM49(n), n in 1..999, compares only an element of the bucket
\* fromM49[m49Index[n>>7] : m49Index[(n>>7)+1]], never indexes past the end of
\* fromM49, and a success with identifier r means that the code of r is n.
C10_ReadsOnlyItsBucket ==
    (op = "getRegionM49" /\ arg \in 1..999) =>
        /\ res.err # "panic"
        /\ res.read # -1 => (res.lo <= res.read /\ res.read < res.hi)
        /\ res.err = "nil" => regionM49(res.id) = arg

\* ---- C5 ----------------------------------------------------------------
M49Codes == { m49[i] : i \in 1..Len(m49) } \ {0}

ToUpper(s) == [i \in 1..Len(s) |-> IF IsLower(s[i]) THEN s[i] - 32 ELSE s[i]]

\* the 3-letter codes the registry knows
RegionISO3Codes ==
    { <<regionISO[i][1], regionISO[i][3], regionISO[i][4]>> : i \in 1..Len(regionISO) }
        \cup { Slice(altRegionISO3, 3 * k, 3 * k + 3) : k \in 0..(Len(altRegionIDs) - 1) }

C6_LowercaseFound ==
    op = "grandfathered" =>
        \A k \in GrandfatheredKeys :
            arg = ToLower(k) => (res.ok /\ res = grandfathered(k))

\* ---- C7 ----------------------------------------------------------------
ExpectedAltTags ==
    <<
       \* "xtg-x-cel-gaulish"
       <<120, 116, 103, 45, 120, 45, 99, 101, 108, 45, 103, 97, 117, 108, 105, 115, 104>>,
       \* "en-GB-x-oed"
       <<101, 110, 45, 71, 66, 45, 120, 45, 111, 101, 100>>,
       \* "en-x-i-default"
       <<101, 110, 45, 120, 45, 105, 45, 100, 101, 102, 97, 117, 108, 116>>,
       \* "und-x-i-enochian"
       <<117, 110, 100, 45, 120, 45, 105, 45, 101, 110, 111, 99, 104, 105, 97, 110>>,
       \* "see-x-i-mingo"
       <<115, 101, 101, 45, 120, 45, 105, 45, 109, 105, 110, 103, 111>>,
       \* "nan-x-zh-min"
       <<110, 97, 110, 45, 120, 45, 122, 104, 45, 109, 105, 110>> >>

\* C7: a key with the negative value -k gives the tag parsed from the k-th
\* replacement literal, cut out of altTags between offsets inside the table;
\* "en-GB-oed" gives the tag parsed from "en-GB-x-oed"; a key with a
\* non-negative value gives a tag whose only set field is that langID.
C7_Replacement ==
    op = "grandfathered" =>
        /\ \A i \in 1..Len(grandfatheredMap) :
              arg = grandfatheredMap[i].key =>
                  LET v == grandfatheredMap[i].v
                  IN  /\ res.ok
                      /\ res.err = "nil"
                      /\ v < 0 => /\ -v \in 1..6
                                  /\ altTagIndex[-v] <= altTagIndex[-v + 1]
                                  /\ altTagIndex[-v + 1] <= Len(altTags)
                                  /\ res.t = Make(ExpectedAltTags[-v])
                      /\ v >= 0 => res.t = [lang |-> v, script |-> 0, region |-> 0,
                                            str |-> <<>>]
        /\ arg = <<101, 110, 45, 71, 66, 45, 111, 101, 100>>                 \* "en-GB-oed"
              => res.t = Make(<<101, 110, 45, 71, 66, 45, 120, 45, 111, 101, 100>>)

\* "en-GB-oed" was resolved to the tag made from "en-GB-x-oed"
C7_Witness ==
    /\ op = "grandfathered"
    /\ arg = <<101, 110, 45, 71, 66, 45, 111, 101, 100>>
    /\ res.ok
    /\ res.t = Make(<<101, 110, 45, 71, 66, 45, 120, 45, 111, 101, 100>>)

\* ---- C3 ----------------------------------------------------------------
\* C3 as claimed: for every langID below langNoIndexOffset (the "und" record
\* included) and every regionID, resolving the string String() renders
\* returns the identifier, without error.
C3_RoundTripAll ==
    (op \in {"langRoundTrip", "regionRoundTrip"}) =>
        (res.err = "nil" /\ res.id = arg)

\* the regionID of the "ZZ" record of regionISO
RegionZZ ==
    isoRegionOffset - 1 + CHOOSE i \in 1..Len(regionISO) : regionISO[i][1] = 90 /\ regionISO[i][2] = 90

\* C3 amended: the round trip holds for every langID below langNoIndexOffset
\* except nonCanonicalUnd, which renders "und" and resolves to 0, and for every
\* regionID except 0, which renders "ZZ" and resolves to the "ZZ" record.
C3_RoundTripButUnd ==
    /\ op = "langRoundTrip" =>
          /\ res.err = "nil"
          /\ res.id = IF arg = nonCanonicalUnd THEN 0 ELSE arg
    /\ op = "regionRoundTrip" =>
          /\ res.err = "nil"
          /\ res.id = IF arg = 0 THEN RegionZZ ELSE arg

\* the 3-letter record "nan", found after two other records under "na"
C3_Witness ==
    /\ op = "langRoundTrip"
    /\ arg = 7
    /\ langString(arg) = <<110, 97, 110>>
    /\ res.err = "nil"
    /\ res.id = 7

\* ---- C9 ----------------------------------------------------------------
\* the hits of the four strategies for a lower-case 3-letter code s
CanonicalHits(s) ==
    { i \in 0..(Len(lang) - 1) :
        LET e == lang[i + 1]
        IN  e[1] = s[1] /\ e[2] = s[2] /\ e[3] = s[3] /\ e[4] = 0 }

AltHits(s) ==
    { i \in 0..(Len(altLangISO3) - 1) : SubSeq(altLangISO3[i + 1], 1, 3) = s }

Packed(s) == (s[1] - 97) * 676 + (s[2] - 97) * 26 + (s[3] - 97)

NonCanonicalHits(s) ==
    { i \in 0..(Len(lang) - 1) :
        LET e == lang[i + 1]
        IN  e[1] = s[1] /\ e[3] = s[2] /\ e[4] = s[3] }

Min(S) == CHOOSE x \in S : \A y \in S : x <= y

\* C9: for a well-formed 3-letter code getLangISO3 returns the result of the
\* first of the four strategies that hits, in the order canonical record (with
\* nonCanonicalUnd turned into 0), alternate table, dense fallback,
\* non-canonical scan; and an invalid-subtag failure only when none hits.
C9_FirstHitWins ==
    (op = "getLangID" /\ Len(arg) = 3 /\ \A i \in 1..3 : isAlpha(arg[i])) =>
        LET s == ToLower(arg)
        IN  IF CanonicalHits(s) # {}
            THEN /\ res.err = "nil"
                 /\ res.id = IF Min(CanonicalHits(s)) = nonCanonicalUnd
                             THEN 0 ELSE Min(CanonicalHits(s))
            ELSE IF AltHits(s) # {}
            THEN /\ res.err = "nil"
                 /\ res.id = altLangIndex[altLangISO3[Min(AltHits(s)) + 1][4] + 1]
            ELSE IF Packed(s) \in langNoIndexSet
            THEN /\ res.err = "nil"
                 /\ res.id = Packed(s) + langNoIndexOffset
            ELSE IF NonCanonicalHits(s) # {}
            THEN /\ res.err = "nil"
                 /\ res.id = Min(NonCanonicalHits(s))
            ELSE /\ res.err = "invalid"
                 /\ res.payload = s

\* a code that the dense fallback and the non-canonical scan both hit was
\* resolved by the dense fallback
C9_Witness ==
    /\ op = "getLangID"
    /\ Len(arg) = 3
    /\ \A i \in 1..3 : isAlpha(arg[i])
    /\ CanonicalHits(ToLower(arg)) = {}
    /\ AltHits(ToLower(arg)) = {}
    /\ Packed(ToLower(arg)) \in langNoIndexSet
    /\ NonCanonicalHits(ToLower(arg)) # {}
    /\ res.err = "nil"
    /\ res.id = Packed(ToLower(arg)) + langNoIndexOffset

=============================================================================
